---------------------------- MODULE Spec2Model ----------------------------
(***************************************************************************)
(* Model of the onlook billing / project / usage-display code:             *)
(*   packages/stripe/src/functions.ts        (schedule workflow, tiers)    *)
(*   apps/web/.../routers/project/project.ts (project create/delete/name)  *)
(*   packages/db/.../subscription.ts         (UsageSection component)      *)
(***************************************************************************)
EXTENDS Integers, Sequences, FiniteSets, TLC

VARIABLES
    wf,         \* updateSubscriptionNextPeriod: position, inputs, outcome
    schedules,  \* subscription schedules existing on the provider side
    calls,      \* provider API calls issued so far, in order
    tier,       \* isTierUpgrade: the last comparison made
    db,         \* committed database tables (what any reader sees)
    tx,         \* the project router's transaction in progress, if any
    res,        \* outcome of the last finished create / delete call
    events,     \* analytics events delivered to the sink
    nextId,     \* number of identifiers generated so far
    gn,         \* generateName: position, model output, outcome
    now,        \* wall clock, in milliseconds
    comp,       \* one UsageSection instance: props, query data, rendered view
    debs,       \* the debounced functions made so far, one per render
    refetches,  \* the calls of refetchUsage made so far
    subscriptions \* the rows of the subscriptions table

vars == <<wf, schedules, calls, tier, db, tx, res, events, nextId, gn,
          now, comp, debs, refetches, subscriptions>>
stripeVars == <<wf, schedules, calls, tier>>
projectVars == <<db, tx, res, events, nextId>>
nameVars == <<gn>>
usageVars == <<now, comp, debs, refetches>>
tableVars == <<subscriptions>>
notStripe == <<projectVars, nameVars, usageVars, tableVars>>
notProject == <<stripeVars, nameVars, usageVars, tableVars>>
notName == <<stripeVars, projectVars, usageVars, tableVars>>
notUsage == <<stripeVars, projectVars, nameVars, tableVars>>
notTable == <<stripeVars, projectVars, nameVars, usageVars>>

(***************************************************************************)
(* Bounds                                                                  *)
(***************************************************************************)
MaxPhases == 2
MaxItems == 2
MaxQuantity == 2
MaxLimit == 4
MaxCreates == 2
MaxPad == 2
MaxBodyLen == 52
MaxRenders == 4
MaxTicks == 3
TickMs == 500
MaxRows == 2

(***************************************************************************)
(* packages/stripe/src/functions.ts : isTierUpgrade                        *)
(***************************************************************************)
PriceKeys == {"basic", "pro"}
Prices == [key : PriceKeys, monthlyMessageLimit : 0..MaxLimit]

isTierUpgradeGe(currentPrice, newPrice) ==
    newPrice.monthlyMessageLimit >= currentPrice.monthlyMessageLimit

isTierUpgrade(currentPrice, newPrice) ==
    newPrice.monthlyMessageLimit > currentPrice.monthlyMessageLimit

TierInit == tier = [called |-> FALSE, currentPrice |-> CHOOSE p \in Prices : TRUE,
                    newPrice |-> CHOOSE p \in Prices : TRUE, result |-> FALSE]

\* One call isTierUpgrade(currentPrice, newPrice); the result is recorded.
CallIsTierUpgrade ==
    /\ \E a \in Prices, b \in Prices :
          tier' = [called |-> TRUE, currentPrice |-> a, newPrice |-> b,
                   result |-> isTierUpgrade(a, b)]
    /\ UNCHANGED <<wf, schedules, calls, notStripe>>

(***************************************************************************)
(* packages/stripe/src/functions.ts : updateSubscriptionNextPeriod         *)
(***************************************************************************)
SubscriptionIds == {"sub_1"}
PriceIds == {"price_basic", "price_pro"}
\* A phase item's price is typed string | Price | DeletedPrice. The create
\* call passes no `expand`, so the provider answers with the id string; the
\* empty string is the value the code's third check rejects.
ItemPrices == [kind : {"id"}, id : PriceIds \cup {""}]
Items == [price : ItemPrices, quantity : 1..MaxQuantity]
ItemLists == UNION {[1..n -> Items] : n \in 0..MaxItems}

FirstStart == 100
PeriodLen == 30

\* Phases after the first continue the first one: contiguous periods, each
\* carrying a single item.
LaterPhase(k) ==
    [items |-> <<[price |-> [kind |-> "id", id |-> "price_basic"],
                  quantity |-> 1]>>,
     start_date |-> FirstStart + (k - 1) * PeriodLen,
     end_date |-> FirstStart + k * PeriodLen]

PhasesOf(items, n) ==
    [k \in 1..n |-> IF k = 1
                    THEN [items |-> items, start_date |-> FirstStart,
                          end_date |-> FirstStart + PeriodLen]
                    ELSE LaterPhase(k)]

\* The phase lists the provider may snapshot from a subscription.
PhaseLists == {<<>>} \cup {PhasesOf(items, n) : items \in ItemLists, n \in 1..MaxPhases}

ScheduleId == "sub_sched_1"
NoSchedule == [id |-> "", phases |-> <<>>]

\* currentItem.price.toString() (line 135): a string is returned as it is,
\* an expanded object gives Object.prototype.toString's text.
ToStr(price) == IF price.kind = "id" THEN price.id ELSE "[object Object]"

\* JavaScript truthiness of a string.
Truthy(s) == s /= ""

WfInit ==
    /\ wf = [pc |-> "idle", subscriptionId |-> "", priceId |-> "",
             schedule |-> NoSchedule, error |-> "", result |-> NoSchedule]
    /\ schedules = {}
    /\ calls = <<>>

\* Entry: createStripeClient() and the schedule-create request (lines 119-124).
StartUpdateNextPeriod ==
    /\ wf.pc = "idle"
    /\ \E s \in SubscriptionIds, p \in PriceIds :
          /\ wf' = [wf EXCEPT !.pc = "creating", !.subscriptionId = s, !.priceId = p]
          /\ calls' = Append(calls, [op |-> "create", from_subscription |-> s,
                                     id |-> "", phases |-> <<>>])
    /\ UNCHANGED <<schedules, tier, notStripe>>

\* The first phase of the update request (lines 143-152).
CurrentPhaseParamLast(schedule) ==
    LET currentPhase == schedule.phases[Len(schedule.phases)]
        currentItem == currentPhase.items[Len(currentPhase.items)]
    IN  [items |-> <<[price |-> ToStr(currentItem.price),
                      quantity |-> currentItem.quantity]>>,
         start_date |-> currentPhase.start_date,
         end_date |-> currentPhase.end_date]

CurrentPhaseParam(schedule) ==
    LET currentPhase == schedule.phases[1]
        currentItem == currentPhase.items[1]
    IN  [items |-> <<[price |-> ToStr(currentItem.price),
                      quantity |-> currentItem.quantity]>>,
         start_date |-> currentPhase.start_date,
         end_date |-> currentPhase.end_date]

\* The second phase of the update request (lines 153-161).
NextPhaseParam(priceId) ==
    [items |-> <<[price |-> priceId, quantity |-> 1]>>, iterations |-> 1]

\* The three absence checks (lines 126-138): "" when all pass.
AbsenceErrorSwapped(schedule) ==
    IF Len(schedule.phases) = 0 THEN "No current item found"
    ELSE IF Len(schedule.phases[1].items) = 0 THEN "No current phase found"
    ELSE IF ~Truthy(ToStr(schedule.phases[1].items[1].price))
         THEN "No current price found"
    ELSE ""

AbsenceErrorNoPriceCheck(schedule) ==
    IF Len(schedule.phases) = 0 THEN "No current phase found"
    ELSE IF Len(schedule.phases[1].items) = 0 THEN "No current item found"
    ELSE ""

AbsenceError(schedule) ==
    IF Len(schedule.phases) = 0 THEN "No current phase found"
    ELSE IF Len(schedule.phases[1].items) = 0 THEN "No current item found"
    ELSE IF ~Truthy(ToStr(schedule.phases[1].items[1].price))
         THEN "No current price found"
    ELSE ""

\* The create call rejects: the provider error propagates (line 122).
CreateScheduleFails ==
    /\ wf.pc = "creating"
    /\ wf' = [wf EXCEPT !.pc = "done", !.error = "provider error"]
    /\ UNCHANGED <<schedules, calls, tier, notStripe>>

\* The create call resolves with a schedule; the code then runs lines 126-141
\* up to the await of the update call, or throws at one of the checks.
CreateScheduleReturns ==
    /\ wf.pc = "creating"
    /\ \E phases \in PhaseLists :
          LET schedule == [id |-> ScheduleId, phases |-> phases]
              err == AbsenceError(schedule)
          IN  /\ schedules' = schedules \cup {schedule}
              /\ IF err /= ""
                 THEN /\ wf' = [wf EXCEPT !.pc = "done", !.schedule = schedule,
                                          !.error = err]
                      /\ calls' = calls
                 ELSE /\ wf' = [wf EXCEPT !.pc = "updating", !.schedule = schedule]
                      /\ calls' = Append(calls,
                            [op |-> "update", from_subscription |-> "",
                             id |-> schedule.id,
                             phases |-> <<CurrentPhaseParam(schedule),
                                          NextPhaseParam(wf.priceId)>>])
    /\ UNCHANGED <<tier, notStripe>>

\* The update call resolves: the provider replaces the schedule's phases and
\* returns the updated schedule, which the function returns (lines 141-165).
UpdateScheduleReturns ==
    /\ wf.pc = "updating"
    /\ LET req == calls[Len(calls)]
           updated == [id |-> req.id, phases |-> req.phases]
       IN  /\ schedules' = (schedules \ {wf.schedule}) \cup {updated}
           /\ wf' = [wf EXCEPT !.pc = "done", !.result = updated]
    /\ UNCHANGED <<calls, tier, notStripe>>

\* The update call rejects: the provider error propagates (line 141).
UpdateScheduleFails ==
    /\ wf.pc = "updating"
    /\ wf' = [wf EXCEPT !.pc = "done", !.error = "provider error"]
    /\ UNCHANGED <<schedules, calls, tier, notStripe>>

(***************************************************************************)
(* apps/web/client/src/server/api/routers/project/project.ts : rows        *)
(***************************************************************************)
UserIds == {"u1", "u2"}
SandboxUrls == {"https://sb1"}
ProjectInputs == [name : {"My App"}, sandboxUrl : SandboxUrls]
\* input.creationData: absent, or a create-request payload without projectId
\* whose own status field may be omitted ("") or set by the caller.
CreationInputs ==
    [present : {FALSE}, context : {""}, status : {""}]
      \cup [present : {TRUE}, context : {"prompt"}, status : {"", "COMPLETED"}]
CreateInputs == [project : ProjectInputs, userId : UserIds,
                 creationData : CreationInputs]

ProjectId(n) == <<"project", n>>
CanvasId(n) == <<"canvas", n>>
FrameId(n) == <<"frame", n>>
ConversationId(n) == <<"conversation", n>>
NoId == <<"none", 0>>
ProjectIds == {ProjectId(n) : n \in 1..MaxCreates}

NoProject == [id |-> NoId, name |-> "", sandboxUrl |-> ""]
NoInput == [project |-> [name |-> "", sandboxUrl |-> ""], userId |-> "",
            creationData |-> [present |-> FALSE, context |-> "", status |-> ""]]

EmptyDb == [projects |-> {}, userProjects |-> {}, canvases |-> {},
            userCanvases |-> {}, frames |-> {}, conversations |-> {},
            projectCreateRequests |-> {}]

\* tx.insert(projects).values(input.project).returning() (line 99)
ProjectRow(n, project) ==
    [id |-> ProjectId(n), name |-> project.name, sandboxUrl |-> project.sandboxUrl]

\* The junction row (lines 105-109)
UserProjectRow(userId, projectId) ==
    [userId |-> userId, projectId |-> projectId, role |-> "OWNER"]

\* createDefaultCanvas(newProject.id) (line 112)
createDefaultCanvas(n, projectId) == [id |-> CanvasId(n), projectId |-> projectId]

\* createDefaultUserCanvas(input.userId, newCanvas.id) (line 115)
createDefaultUserCanvas(userId, canvasId) == [userId |-> userId, canvasId |-> canvasId]

\* createDefaultFrame(newCanvas.id, input.project.sandboxUrl) (line 119)
createDefaultFrame(n, canvasId, url) ==
    [id |-> FrameId(n), canvasId |-> canvasId, url |-> url]

\* createDefaultConversation(newProject.id) (line 123)
createDefaultConversation(n, projectId) ==
    [id |-> ConversationId(n), projectId |-> projectId]

\* The creation-request row (lines 128-132): the spread of the input comes
\* first, so status and projectId are the ones the code sets.
CreateRequestRowSpreadLast(creationData, projectId) ==
    [context |-> creationData.context,
     status |-> IF creationData.status /= "" THEN creationData.status ELSE "PENDING",
     projectId |-> projectId]

CreateRequestRow(creationData, projectId) ==
    [context |-> creationData.context, status |-> "PENDING", projectId |-> projectId]

(***************************************************************************)
(* ctx.db.transaction: the callback works on the transaction's own view;   *)
(* a callback that throws rolls back, one that returns commits.            *)
(***************************************************************************)
TxIdle == [op |-> "none", pc |-> "", n |-> 0, work |-> EmptyDb, input |-> NoInput,
           newProject |-> NoProject, id |-> NoId]
NoRes == [op |-> "none", kind |-> "none", error |-> "", n |-> 0,
          project |-> NoProject, input |-> NoInput, id |-> NoId, event |-> "none"]

ProjectInit ==
    /\ db = EmptyDb
    /\ tx = TxIdle
    /\ res = NoRes
    /\ events = {}
    /\ nextId = 0

\* What is committed when the create callback throws (lines 97, 143).
CreateAbortKeepsWork(before, work) == work

CreateAbort(before, work) == before

\* What is committed when the delete callback throws (lines 179, 182).
DeleteAbortKeepsWork(before, work) == work

DeleteAbort(before, work) == before

\* The create callback throws: the transaction rolls back, the error is the
\* mutation's outcome.
CreateThrows(err) ==
    /\ db' = CreateAbort(db, tx.work)
    /\ res' = [op |-> "create", kind |-> "error", error |-> err, n |-> tx.n,
               project |-> NoProject, input |-> tx.input, id |-> NoId,
               event |-> "none"]
    /\ tx' = TxIdle
    /\ UNCHANGED <<events, nextId>>

\* One awaited insert inside the create callback: it resolves and the callback
\* moves on to `next`, or it rejects and the callback throws.
CreateInsert(table, row, next) ==
    \/ /\ tx' = [tx EXCEPT !.work[table] = @ \cup {row}, !.pc = next]
       /\ UNCHANGED <<db, res, events, nextId>>
    \/ CreateThrows("insert failed")

\* create is called: the transaction begins (lines 96-97).
CreateStart ==
    /\ tx.op = "none"
    /\ nextId < MaxCreates
    /\ \E input \in CreateInputs :
          tx' = [TxIdle EXCEPT !.op = "create", !.pc = "project", !.n = nextId + 1,
                               !.work = db, !.input = input]
    /\ nextId' = nextId + 1
    /\ UNCHANGED <<db, res, events, notProject>>

\* 1. Insert the new project (lines 99-102).
CreateInsertProject ==
    /\ tx.op = "create" /\ tx.pc = "project"
    /\ LET row == ProjectRow(tx.n, tx.input.project)
       IN  \/ /\ tx' = [tx EXCEPT !.work.projects = @ \cup {row},
                                  !.newProject = row, !.pc = "userProject"]
              /\ UNCHANGED <<db, res, events, nextId>>
           \/ CreateThrows("Failed to create project in database")
           \/ CreateThrows("insert failed")
    /\ UNCHANGED notProject

\* 2. Create the association in the junction table (lines 105-109).
CreateInsertUserProject ==
    /\ tx.op = "create" /\ tx.pc = "userProject"
    /\ CreateInsert("userProjects",
                    UserProjectRow(tx.input.userId, tx.newProject.id), "canvas")
    /\ UNCHANGED notProject

\* 3. Create the default canvas (lines 112-113).
CreateInsertCanvas ==
    /\ tx.op = "create" /\ tx.pc = "canvas"
    /\ CreateInsert("canvases", createDefaultCanvas(tx.n, tx.newProject.id),
                    "userCanvas")
    /\ UNCHANGED notProject

\* The default user canvas (lines 115-116).
CreateInsertUserCanvas ==
    /\ tx.op = "create" /\ tx.pc = "userCanvas"
    /\ CreateInsert("userCanvases",
                    createDefaultUserCanvas(tx.input.userId,
                        createDefaultCanvas(tx.n, tx.newProject.id).id),
                    "frame")
    /\ UNCHANGED notProject

\* 4. Create the default frame (lines 119-120).
CreateInsertFrame ==
    /\ tx.op = "create" /\ tx.pc = "frame"
    /\ CreateInsert("frames",
                    createDefaultFrame(tx.n,
                        createDefaultCanvas(tx.n, tx.newProject.id).id,
                        tx.input.project.sandboxUrl),
                    "conversation")
    /\ UNCHANGED notProject

\* trackEvent of '@/utils/analytics/server': fire-and-forget emission to the
\* analytics sink; the event is delivered or lost, and the caller never sees
\* a failure.
TrackEvent(evs, ev, delivered) == IF delivered THEN evs \cup {ev} ELSE evs

TrackEventThrows(delivered) == FALSE

\* How the callback ends after the last insert (lines 135-142): trackEvent is
\* called without await or try/catch, then newProject is returned.
CreateCallbackOutcomeAwaited(delivered) == IF delivered THEN "return" ELSE "throw"

CreateCallbackOutcome(delivered) ==
    IF TrackEventThrows(delivered) THEN "throw" ELSE "return"

\* The tail of the create callback once every insert has resolved
\* (lines 135-143): emit the event, return newProject, commit.
CreateFinish(work) ==
    \E delivered \in BOOLEAN :
       /\ events' = TrackEvent(events,
                        [distinctId |-> tx.input.userId,
                         event |-> "user_create_project",
                         projectId |-> tx.newProject.id], delivered)
       /\ IF CreateCallbackOutcome(delivered) = "return"
          THEN /\ db' = work
               /\ res' = [op |-> "create", kind |-> "ok", error |-> "", n |-> tx.n,
                          project |-> tx.newProject, input |-> tx.input,
                          id |-> tx.newProject.id,
                          event |-> IF delivered THEN "delivered" ELSE "failed"]
          ELSE /\ db' = CreateAbort(db, work)
               /\ res' = [op |-> "create", kind |-> "error",
                          error |-> "event failed", n |-> tx.n,
                          project |-> NoProject, input |-> tx.input, id |-> NoId,
                          event |-> IF delivered THEN "delivered" ELSE "failed"]
       /\ tx' = TxIdle
       /\ UNCHANGED nextId

\* 5. Create the default conversation (lines 123-124); without creation data
\* the callback then runs to its end (lines 127, 135-142).
CreateInsertConversation ==
    /\ tx.op = "create" /\ tx.pc = "conversation"
    /\ LET row == createDefaultConversation(tx.n, tx.newProject.id)
           work == [tx.work EXCEPT !.conversations = @ \cup {row}]
       IN  \/ /\ tx.input.creationData.present
              /\ tx' = [tx EXCEPT !.work = work, !.pc = "request"]
              /\ UNCHANGED <<db, res, events, nextId>>
           \/ /\ ~tx.input.creationData.present
              /\ CreateFinish(work)
           \/ CreateThrows("insert failed")
    /\ UNCHANGED notProject

\* 6. Create the creation request (lines 127-133), then the callback's end.
CreateInsertRequest ==
    /\ tx.op = "create" /\ tx.pc = "request"
    /\ LET row == CreateRequestRow(tx.input.creationData, tx.newProject.id)
           work == [tx.work EXCEPT !.projectCreateRequests = @ \cup {row}]
       IN  \/ CreateFinish(work)
           \/ CreateThrows("insert failed")
    /\ UNCHANGED notProject

\* The delete callback throws: the transaction rolls back.
DeleteThrows ==
    /\ db' = DeleteAbort(db, tx.work)
    /\ res' = [NoRes EXCEPT !.op = "delete", !.kind = "error",
                            !.error = "delete failed", !.id = tx.id]
    /\ tx' = TxIdle
    /\ UNCHANGED <<events, nextId>>

\* delete is called: the transaction begins (lines 178-179).
DeleteStart ==
    /\ tx.op = "none"
    /\ \E id \in ProjectIds :
          tx' = [TxIdle EXCEPT !.op = "delete", !.pc = "project", !.id = id,
                               !.work = db]
    /\ UNCHANGED <<db, res, events, nextId, notProject>>

\* tx.delete(projects).where(eq(projects.id, input.id)) (line 180)
DeleteProjectRow ==
    /\ tx.op = "delete" /\ tx.pc = "project"
    /\ \/ /\ tx' = [tx EXCEPT !.work.projects = {p \in @ : p.id /= tx.id},
                              !.pc = "userProjects"]
          /\ UNCHANGED <<db, res, events, nextId>>
       \/ DeleteThrows
    /\ UNCHANGED notProject

\* tx.delete(userProjects).where(eq(userProjects.projectId, input.id))
\* (line 181); the callback then returns and the transaction commits.
DeleteUserProjects ==
    /\ tx.op = "delete" /\ tx.pc = "userProjects"
    /\ \/ /\ db' = [tx.work EXCEPT !.userProjects = {u \in @ : u.projectId /= tx.id}]
          /\ res' = [NoRes EXCEPT !.op = "delete", !.kind = "ok", !.id = tx.id]
          /\ tx' = TxIdle
          /\ UNCHANGED <<events, nextId>>
       \/ DeleteThrows
    /\ UNCHANGED notProject

(***************************************************************************)
(* project.ts : generateName                                               *)
(***************************************************************************)
MAX_NAME_LENGTH == 50

\* Strings are sequences of characters.
Spaces == {" ", "\n", "\t"}
Fallback == <<"N", "e", "w", " ", "P", "r", "o", "j", "e", "c", "t">>

\* Model outputs: leading white space, a body of n characters (with an inner
\* blank when `inner`), trailing white space.
Pad(k) == [i \in 1..k |-> IF i % 2 = 1 THEN " " ELSE "\n"]
Body(n, inner) == [i \in 1..n |-> IF inner /\ i = 2 /\ n > 2 THEN " " ELSE "a"]
Texts == {Pad(l) \o Body(n, inner) \o Pad(t) :
             l \in 0..MaxPad, n \in 0..MaxBodyLen, inner \in BOOLEAN, t \in 0..MaxPad}

RECURSIVE TrimStart(_)
TrimStart(s) ==
    IF s = <<>> THEN s
    ELSE IF Head(s) \in Spaces THEN TrimStart(Tail(s)) ELSE s

RECURSIVE TrimEnd(_)
TrimEnd(s) ==
    IF s = <<>> THEN s
    ELSE IF s[Len(s)] \in Spaces THEN TrimEnd(SubSeq(s, 1, Len(s) - 1)) ELSE s

\* String.prototype.trim (line 165)
Trim(s) == TrimEnd(TrimStart(s))

\* The acceptance test of line 166.
NameAcceptedStrict(generatedName) ==
    /\ generatedName /= <<>>
    /\ Len(generatedName) > 0
    /\ Len(generatedName) < MAX_NAME_LENGTH

NameAccepted(generatedName) ==
    /\ generatedName /= <<>>
    /\ Len(generatedName) > 0
    /\ Len(generatedName) <= MAX_NAME_LENGTH

GnIdle == [pc |-> "idle", ok |-> FALSE, text |-> <<>>, kind |-> "none",
           result |-> <<>>]

NameInit == gn = GnIdle

\* generateName is called; initModel is awaited (lines 149-154).
GenerateNameStart ==
    /\ gn.pc = "idle"
    /\ gn' = [gn EXCEPT !.pc = "initModel"]
    /\ UNCHANGED notName

\* initModel rejects: the catch block returns the fallback (lines 171-174).
InitModelFails ==
    /\ gn.pc = "initModel"
    /\ gn' = [gn EXCEPT !.pc = "done", !.kind = "return", !.result = Fallback]
    /\ UNCHANGED notName

\* initModel resolves; generateText is awaited (lines 157-163).
InitModelReturns ==
    /\ gn.pc = "initModel"
    /\ gn' = [gn EXCEPT !.pc = "generateText"]
    /\ UNCHANGED notName

\* generateText rejects: the catch block returns the fallback (lines 171-174).
GenerateTextFails ==
    /\ gn.pc = "generateText"
    /\ gn' = [gn EXCEPT !.pc = "done", !.kind = "return", !.result = Fallback]
    /\ UNCHANGED notName

\* generateText resolves with a text (lines 165-170).
GenerateTextReturns ==
    /\ gn.pc = "generateText"
    /\ \E text \in Texts :
          LET generatedName == Trim(text)
          IN  gn' = [gn EXCEPT !.pc = "done", !.ok = TRUE, !.text = text,
                               !.kind = "return",
                               !.result = IF NameAccepted(generatedName)
                                          THEN generatedName ELSE Fallback]
    /\ UNCHANGED notName

(***************************************************************************)
(* packages/db/src/schema/subscription/subscription.ts : UsageSection      *)
(***************************************************************************)
WAIT_MS == 1000

MonthNames == <<"January", "February", "March", "April", "May", "June", "July",
                "August", "September", "October", "November", "December">>
Dates == {[year |-> 2025, month |-> 1, day |-> 5],
          [year |-> 2026, month |-> 12, day |-> 31]}
NoDate == [year |-> 0, month |-> 0, day |-> 0]

\* toLocaleDateString('en-US', {month: 'long', day: 'numeric', year: 'numeric'})
FormatDate(d) ==
    MonthNames[d.month] \o " " \o ToString(d.day) \o ", " \o ToString(d.year)

ScheduledLimits == {100, 500}
NoPrice == [defined |-> FALSE, monthlyMessageLimit |-> 0]
ScheduledPrices == {NoPrice}
                     \cup [defined : {TRUE}, monthlyMessageLimit : ScheduledLimits]
NoChange == [defined |-> FALSE, scheduledAction |-> "", price |-> NoPrice,
             scheduledChangeAt |-> NoDate]
ScheduledChanges ==
    {NoChange} \cup [defined : {TRUE},
                     scheduledAction : {"PRICE_CHANGE", "CANCELLATION"},
                     price : ScheduledPrices, scheduledChangeAt : Dates]
NoSubscription == [defined |-> FALSE, productType |-> "", scheduledChange |-> NoChange]
Subscriptions == [defined : {TRUE}, productType : {"FREE", "PRO"},
                  scheduledChange : ScheduledChanges]

NoUsage == [usageCount |-> 0, limitCount |-> 0]
NoUsageData == [defined |-> FALSE, daily |-> NoUsage, monthly |-> NoUsage]
UsageDatas == {[defined |-> TRUE, daily |-> [usageCount |-> 3, limitCount |-> 0],
                monthly |-> [usageCount |-> 25, limitCount |-> 100]],
               [defined |-> TRUE, daily |-> [usageCount |-> 5, limitCount |-> 5],
                monthly |-> [usageCount |-> 50, limitCount |-> 100]]}

\* getSubscriptionChangeMessage (lines 100-115): the parts of the template
\* literal, in order (the text shown is their concatenation); <<>> when no
\* message element is returned.
getSubscriptionChangeMessageNoCancel(subscription) ==
    LET change == subscription.scheduledChange
    IN  IF subscription.defined /\ change.defined
           /\ change.scheduledAction = "PRICE_CHANGE" /\ change.price.defined
        THEN <<"Your ", ToString(change.price.monthlyMessageLimit),
               " messages a month plan starts on ",
               FormatDate(change.scheduledChangeAt)>>
        ELSE <<>>

getSubscriptionChangeMessage(subscription) ==
    LET change == subscription.scheduledChange
    IN  IF subscription.defined /\ change.defined
           /\ change.scheduledAction = "PRICE_CHANGE" /\ change.price.defined
        THEN <<"Your ", ToString(change.price.monthlyMessageLimit),
               " messages a month plan starts on ",
               FormatDate(change.scheduledChangeAt)>>
        ELSE IF subscription.defined /\ change.defined
                /\ change.scheduledAction = "CANCELLATION"
        THEN <<"Your subscription will end on ",
               FormatDate(change.scheduledChangeAt)>>
        ELSE <<>>

\* What one render returns (lines 81-135).
View(subscription, usageData) ==
    LET free == ~subscription.defined \/ subscription.productType = "FREE"
        usage == IF free THEN usageData.daily ELSE usageData.monthly
    IN  IF ~usageData.defined
        THEN [kind |-> "loading", message |-> <<>>, usagePercent |-> 0]
        ELSE [kind |-> "body",
              message |-> getSubscriptionChangeMessage(subscription),
              usagePercent |-> IF usage.limitCount > 0
                               THEN (usage.usageCount * 100) \div usage.limitCount
                               ELSE 0]

\* lodash debounce(func, wait, {leading: true, trailing: false}): the state
\* of one debounced function (-1: undefined).
NewDebounced == [lastCallTime |-> -1, timerAt |-> -1]

shouldInvoke(d, time) ==
    \/ d.lastCallTime = -1
    \/ time - d.lastCallTime >= WAIT_MS
    \/ time - d.lastCallTime < 0

\* One call of the debounced function at `time`: the new state and whether
\* func was invoked (the leading edge).
CallDebounced(d, time) ==
    IF shouldInvoke(d, time) /\ d.timerAt = -1
    THEN [deb |-> [lastCallTime |-> time, timerAt |-> time + WAIT_MS],
          invoked |-> TRUE]
    ELSE [deb |-> [lastCallTime |-> time,
                   timerAt |-> IF d.timerAt = -1 THEN time + WAIT_MS ELSE d.timerAt],
          invoked |-> FALSE]

UsageInit ==
    /\ now = 0
    /\ comp = [mounted |-> FALSE, open |-> FALSE, subscription |-> NoSubscription,
               usageData |-> NoUsageData,
               view |-> [kind |-> "none", message |-> <<>>, usagePercent |-> 0],
               inflight |-> 0]
    /\ debs = <<>>
    /\ refetches = <<>>

\* One render with props `open` and the given query data (lines 69-135): a
\* new debounced function is made (line 74); when `runEffect` (mount, or
\* `open` changed) the effect of this render runs (lines 75-79) and calls
\* this render's debounced function if open.
Render(open, subscription, usageData, runEffect, inflight) ==
    LET call == CallDebounced(NewDebounced, now)
        fire == runEffect /\ open
    IN  /\ Len(debs) < MaxRenders
        /\ debs' = Append(debs, IF fire THEN call.deb ELSE NewDebounced)
        /\ refetches' = IF fire /\ call.invoked
                        THEN Append(refetches, [at |-> now, open |-> open])
                        ELSE refetches
        /\ comp' = [mounted |-> TRUE, open |-> open, subscription |-> subscription,
                    usageData |-> usageData,
                    view |-> View(subscription, usageData),
                    inflight |-> IF fire /\ call.invoked THEN inflight + 1
                                 ELSE inflight]
        /\ UNCHANGED now

\* The component mounts: both queries start, first render, effect runs.
Mount ==
    /\ ~comp.mounted
    /\ \E open \in BOOLEAN : Render(open, NoSubscription, NoUsageData, TRUE, 1)
    /\ UNCHANGED notUsage

\* The parent changes the `open` prop: re-render, and the effect runs.
SetOpen ==
    /\ comp.mounted
    /\ Render(~comp.open, comp.subscription, comp.usageData, TRUE, comp.inflight)
    /\ UNCHANGED notUsage

\* The subscription query resolves: re-render, the effect does not run.
SubscriptionResolved ==
    /\ comp.mounted /\ ~comp.subscription.defined
    /\ \E sub \in Subscriptions :
          Render(comp.open, sub, comp.usageData, FALSE, comp.inflight)
    /\ UNCHANGED notUsage

\* A usage fetch (the initial one or a refetch) resolves: re-render, the
\* effect does not run.
UsageResolved ==
    /\ comp.mounted /\ comp.inflight > 0
    /\ \E data \in UsageDatas :
          Render(comp.open, comp.subscription, data, FALSE, comp.inflight - 1)
    /\ UNCHANGED notUsage

\* Time passes.
Tick ==
    /\ now + TickMs <= MaxTicks * TickMs
    /\ now' = now + TickMs
    /\ UNCHANGED <<comp, debs, refetches, notUsage>>

\* lodash timerExpired of debounced function i: with trailing false nothing
\* is invoked; the timer is cleared, or re-armed for the remaining wait.
TimerExpired ==
    /\ \E i \in 1..Len(debs) :
          /\ debs[i].timerAt /= -1
          /\ now >= debs[i].timerAt
          /\ debs' = [debs EXCEPT ![i].timerAt =
                         IF shouldInvoke(debs[i], now) THEN -1
                         ELSE now + (WAIT_MS - (now - debs[i].lastCallTime))]
    /\ UNCHANGED <<now, comp, refetches, notUsage>>

(***************************************************************************)
(* packages/db/src/schema/subscription/subscription.ts : subscriptions     *)
(***************************************************************************)
\* SQL NULL, for the columns that admit it.
Null == "NULL"

RowIds == 1..MaxRows
StripeIds == {"sub_1", "sub_2"}
StripeItemIds == {"si_1", "si_2"}
PriceRefs == {"price_basic", "price_pro"}
ChangeTimes == {"2026-01-01T00:00:00Z"}
ScheduledActions == {"PRICE_CHANGE", "CANCELLATION"}

\* The values an insert or update may offer for each modelled column
\* (lines 12-37): any value of the column's type, or NULL.
OfferedRows ==
    [id : RowIds,
     priceId : PriceRefs \cup {Null},
     stripeSubscriptionId : StripeIds \cup {Null},
     stripeSubscriptionItemId : StripeItemIds \cup {Null},
     scheduledAction : ScheduledActions \cup {Null},
     scheduledPriceId : PriceRefs \cup {Null},
     scheduledChangeAt : ChangeTimes \cup {Null}]

\* The notNull() columns (lines 17, 27, 28); the three scheduled-change
\* columns (lines 35-37) carry no notNull().
NotNullOk(row) ==
    /\ row.priceId /= Null
    /\ row.stripeSubscriptionId /= Null
    /\ row.stripeSubscriptionItemId /= Null

\* primaryKey() on id (line 12), unique() on the two stripe ids (lines 27-28).
UniqueOk(rows, row) ==
    \A r \in rows :
       /\ r.id /= row.id
       /\ r.stripeSubscriptionId /= row.stripeSubscriptionId
       /\ r.stripeSubscriptionItemId /= row.stripeSubscriptionItemId

\* The table accepts the row: the only constraints it declares (lines 11-38).
Accepts(rows, row) == NotNullOk(row) /\ UniqueOk(rows, row)

TableInit == subscriptions = {}

\* INSERT of one row.
InsertSubscription ==
    /\ \E row \in OfferedRows :
          /\ Accepts(subscriptions, row)
          /\ subscriptions' = subscriptions \cup {row}
    /\ UNCHANGED notTable

\* UPDATE of the scheduled-change columns of one row.
UpdateScheduledChange ==
    /\ \E old \in subscriptions, new \in OfferedRows :
          /\ new.id = old.id /\ new.priceId = old.priceId
          /\ new.stripeSubscriptionId = old.stripeSubscriptionId
          /\ new.stripeSubscriptionItemId = old.stripeSubscriptionItemId
          /\ new /= old
          /\ Accepts(subscriptions \ {old}, new)
          /\ subscriptions' = (subscriptions \ {old}) \cup {new}
    /\ UNCHANGED notTable

\* DELETE of one row.
DeleteSubscription ==
    /\ \E row \in subscriptions : subscriptions' = subscriptions \ {row}
    /\ UNCHANGED notTable

(***************************************************************************)
(* Specifications                                                          *)
(***************************************************************************)
Init == WfInit /\ TierInit /\ ProjectInit /\ NameInit /\ UsageInit /\ TableInit

NextSchedule ==
    \/ StartUpdateNextPeriod
    \/ CreateScheduleFails
    \/ CreateScheduleReturns
    \/ UpdateScheduleReturns
    \/ UpdateScheduleFails

SpecSchedule == Init /\ [][NextSchedule]_vars

NextProject ==
    \/ CreateStart
    \/ CreateInsertProject
    \/ CreateInsertUserProject
    \/ CreateInsertCanvas
    \/ CreateInsertUserCanvas
    \/ CreateInsertFrame
    \/ CreateInsertConversation
    \/ CreateInsertRequest
    \/ DeleteStart
    \/ DeleteProjectRow
    \/ DeleteUserProjects

SpecProject == Init /\ [][NextProject]_vars

NextName ==
    \/ GenerateNameStart
    \/ InitModelFails
    \/ InitModelReturns
    \/ GenerateTextFails
    \/ GenerateTextReturns

SpecName == Init /\ [][NextName]_vars

NextUsage ==
    \/ Mount
    \/ SetOpen
    \/ SubscriptionResolved
    \/ UsageResolved
    \/ Tick
    \/ TimerExpired

SpecUsage == Init /\ [][NextUsage]_vars

NextTable ==
    \/ InsertSubscription
    \/ UpdateScheduledChange
    \/ DeleteSubscription

SpecTable == Init /\ [][NextTable]_vars

NextTier == CallIsTierUpgrade

SpecTier == Init /\ [][NextTier]_vars

(***************************************************************************)
(* Claims: schedule workflow                                               *)
(***************************************************************************)
UpdateCalls == SelectSeq(calls, LAMBDA c : c.op = "update")

HasCurrentPrice(schedule) ==
    /\ Len(schedule.phases) >= 1
    /\ Len(schedule.phases[1].items) >= 1
    /\ schedule.phases[1].items[1].price.id /= ""

\* C1: when the created schedule has a phase 0 whose item 0 carries a
\* non-empty price, exactly one schedule-update call is issued; its phase list
\* has exactly two phases, the first with the current phase's price, quantity,
\* start_date and end_date, the second with only the new priceId at quantity 1
\* and iterations = 1; the schedule that call returns is the function's result.
C1_TwoPhaseUpdate ==
    (wf.pc \in {"updating", "done"} /\ wf.schedule /= NoSchedule
        /\ HasCurrentPrice(wf.schedule)) =>
      LET cur == wf.schedule.phases[1]
      IN  /\ Len(UpdateCalls) = 1
          /\ UpdateCalls[1].id = wf.schedule.id
          /\ Len(UpdateCalls[1].phases) = 2
          /\ UpdateCalls[1].phases[1] =
                [items |-> <<[price |-> cur.items[1].price.id,
                              quantity |-> cur.items[1].quantity]>>,
                 start_date |-> cur.start_date, end_date |-> cur.end_date]
          /\ UpdateCalls[1].phases[2] =
                [items |-> <<[price |-> wf.priceId, quantity |-> 1]>>,
                 iterations |-> 1]
          /\ (wf.pc = "done" /\ wf.error = "" =>
                /\ wf.result = [id |-> wf.schedule.id,
                                phases |-> UpdateCalls[1].phases]
                /\ wf.result \in schedules)

\* A run that returned the updated schedule, from a created schedule with two
\* phases and two items whose first item differs from the new price.
C1_Witness ==
    /\ wf.pc = "done" /\ wf.error = ""
    /\ Len(wf.schedule.phases) = 2
    /\ Len(wf.schedule.phases[1].items) = 2
    /\ wf.schedule.phases[1].items[1].price.id /= wf.priceId
    /\ wf.schedule.phases[1].items[1].quantity = 2
    /\ Len(wf.result.phases) = 2

\* C2: when the created schedule has zero phases, the call fails with the
\* "no current phase" error and no schedule-update call is issued.
C2_NoPhaseNoUpdate ==
    (wf.pc \in {"updating", "done"} /\ wf.schedule /= NoSchedule
        /\ Len(wf.schedule.phases) = 0) =>
      /\ wf.pc = "done"
      /\ wf.error = "No current phase found"
      /\ wf.result = NoSchedule
      /\ Len(UpdateCalls) = 0

C2_Witness ==
    /\ wf.pc = "done"
    /\ wf.schedule.id = ScheduleId
    /\ Len(wf.schedule.phases) = 0
    /\ Len(calls) = 1

(***************************************************************************)
(* Claims: tier comparison                                                 *)
(***************************************************************************)
\* C9: isTierUpgrade(a, b) is true iff b's monthly message limit exceeds a's;
\* it is false on equal limits, irreflexive and antisymmetric.
C9_TierUpgradeOrder ==
    tier.called =>
      LET a == tier.currentPrice
          b == tier.newPrice
      IN  /\ tier.result <=> (b.monthlyMessageLimit > a.monthlyMessageLimit)
          /\ (a.monthlyMessageLimit = b.monthlyMessageLimit => ~tier.result)
          /\ (a = b => ~tier.result)
          /\ ~(tier.result /\ isTierUpgrade(b, a))

\* A comparison of two distinct prices with equal limits.
C9_Witness ==
    /\ tier.called
    /\ tier.currentPrice /= tier.newPrice
    /\ tier.currentPrice.monthlyMessageLimit = tier.newPrice.monthlyMessageLimit
    /\ ~tier.result

(***************************************************************************)
(* Claims: project create / delete                                         *)
(***************************************************************************)
Tables == {"projects", "userProjects", "canvases", "userCanvases", "frames",
           "conversations", "projectCreateRequests"}

\* The rows of database d that call number n of create inserts.
RowsOfCall(d, n) ==
    {r \in d.projects : r.id = ProjectId(n)}
      \cup {r \in d.userProjects : r.projectId = ProjectId(n)}
      \cup {r \in d.canvases : r.id = CanvasId(n)}
      \cup {r \in d.userCanvases : r.canvasId = CanvasId(n)}
      \cup {r \in d.frames : r.id = FrameId(n)}
      \cup {r \in d.conversations : r.id = ConversationId(n)}
      \cup {r \in d.projectCreateRequests : r.projectId = ProjectId(n)}

\* Project p is visible in d together with all of its default rows.
HasDefaultRows(d, p) ==
    /\ \E u \in d.userProjects : u.projectId = p.id /\ u.role = "OWNER"
    /\ \E c \in d.canvases :
          /\ c.projectId = p.id
          /\ \E uc \in d.userCanvases : uc.canvasId = c.id
          /\ \E f \in d.frames : f.canvasId = c.id
    /\ \E cv \in d.conversations : cv.projectId = p.id

\* C3: project create is all-or-nothing. After a create that failed at any
\* step none of the rows of that call exists; while a create is in progress
\* none of its rows is visible; and no committed state shows a project
\* without its ownership, canvas, user-canvas, frame and conversation rows.
C3_CreateAllOrNothing ==
    /\ (res.op = "create" /\ res.kind = "error" => RowsOfCall(db, res.n) = {})
    /\ (tx.op = "create" => RowsOfCall(db, tx.n) = {})
    /\ \A p \in db.projects : HasDefaultRows(db, p)

\* A create with creation data whose last insert failed, after an earlier
\* create had committed.
C3_Witness ==
    /\ res.op = "create" /\ res.kind = "error" /\ res.error = "insert failed"
    /\ res.input.creationData.present
    /\ res.n = 2
    /\ db.projects /= {}
    /\ tx.op = "none"

Added(t) == db'[t] \ db[t]

\* C4: a successful create adds exactly one project, ownership (role OWNER),
\* canvas, user-canvas, frame and conversation row, all tied to the new
\* project id (user canvas and frame through the new canvas), removes nothing,
\* and adds exactly one creation-request row, PENDING and linked to the
\* project, iff creation data was supplied.
C4_CreateAddsDefaultRows ==
    [][(tx.op = "create" /\ tx'.op = "none" /\ res'.kind = "ok") =>
         LET pid == ProjectId(tx.n)
             input == tx.input
         IN  /\ \A t \in Tables : db[t] \subseteq db'[t]
             /\ \A p \in db.projects : p.id /= pid
             /\ Added("projects") = {res'.project}
             /\ res'.project.id = pid
             /\ Added("userProjects") =
                   {[userId |-> input.userId, projectId |-> pid, role |-> "OWNER"]}
             /\ \E c \in Added("canvases") :
                   /\ Added("canvases") = {c}
                   /\ c.projectId = pid
                   /\ Added("userCanvases") =
                         {[userId |-> input.userId, canvasId |-> c.id]}
                   /\ \E f \in Added("frames") :
                         /\ Added("frames") = {f}
                         /\ f.canvasId = c.id
                         /\ f.url = input.project.sandboxUrl
             /\ \E cv \in Added("conversations") :
                   /\ Added("conversations") = {cv}
                   /\ cv.projectId = pid
             /\ IF input.creationData.present
                THEN \E r \in Added("projectCreateRequests") :
                        /\ Added("projectCreateRequests") = {r}
                        /\ r.status = "PENDING"
                        /\ r.projectId = pid
                ELSE Added("projectCreateRequests") = {}
      ]_vars

\* A second successful create, whose creation data carried its own status.
C4_Witness ==
    /\ res.op = "create" /\ res.kind = "ok" /\ res.n = 2
    /\ res.input.creationData.present
    /\ res.input.creationData.status = "COMPLETED"
    /\ Cardinality(db.projectCreateRequests) >= 1
    /\ res.project \in db.projects

C8_DeleteAtomic ==
    [][(tx.op = "delete" /\ tx'.op = "none") =>
         IF res'.kind = "ok"
         THEN /\ db'.projects = {p \in db.projects : p.id /= tx.id}
              /\ db'.userProjects = {u \in db.userProjects : u.projectId /= tx.id}
              /\ \A t \in Tables \ {"projects", "userProjects"} : db'[t] = db[t]
         ELSE db' = db
      ]_vars

\* A successful delete of an existing project while another project remains.
C8_Witness ==
    /\ res.op = "delete" /\ res.kind = "ok"
    /\ \E c \in db.canvases : c.projectId = res.id
    /\ \A p \in db.projects : p.id /= res.id
    /\ \A u \in db.userProjects : u.projectId /= res.id
    /\ db.projects /= {} /\ db.userProjects /= {}

(***************************************************************************)
(* Claims: generateName                                                    *)
(***************************************************************************)
\* t between its first and its last character that is not white space.
Inner(t) ==
    LET idx == {k \in 1..Len(t) : t[k] \notin Spaces}
    IN  IF idx = {} THEN <<>>
        ELSE SubSeq(t, CHOOSE k \in idx : \A m \in idx : k <= m,
                       CHOOSE k \in idx : \A m \in idx : k >= m)

\* C7: generateName always returns (never throws); it returns the trimmed
\* model output iff the model call succeeded and the trimmed text has between
\* 1 and 50 characters, and 'New Project' in every other case.
C7_NameOrFallback ==
    gn.pc = "done" =>
       /\ gn.kind = "return"
       /\ IF gn.ok /\ Len(Inner(gn.text)) >= 1
                   /\ Len(Inner(gn.text)) <= MAX_NAME_LENGTH
          THEN gn.result = Inner(gn.text) /\ gn.result /= Fallback
          ELSE gn.result = Fallback

\* A model output, padded on both sides, whose trimmed text has exactly 50
\* characters and is returned.
C7_Witness ==
    /\ gn.pc = "done" /\ gn.ok
    /\ Len(gn.text) = MAX_NAME_LENGTH + 2 * MaxPad
    /\ Len(gn.result) = MAX_NAME_LENGTH
    /\ gn.result /= Fallback

(***************************************************************************)
(* Claims: UsageSection                                                    *)
(***************************************************************************)
\* C6: the usage refetch of one component instance is debounced: a refetch
\* happens only while open is true, and any two refetches of the instance are
\* at least one second apart (one leading call per 1-second window, later
\* calls in the window dropped).
C6_RefetchDebounced ==
    /\ \A i \in 1..Len(refetches) : refetches[i].open
    /\ \A i \in 1..Len(refetches) : \A j \in (i + 1)..Len(refetches) :
          refetches[j].at - refetches[i].at >= WAIT_MS

Contains(parts, part) == \E i \in 1..Len(parts) : parts[i] = part

\* C10: in the rendered usage display, a scheduled PRICE_CHANGE with a target
\* price gives a message that includes the target price's monthly message
\* limit and the formatted effective date; a scheduled CANCELLATION gives a
\* message stating that the subscription ends on the formatted date; with no
\* scheduled action no message is rendered.
C10_ScheduledChangeMessage ==
    LET sub == comp.subscription
        change == sub.scheduledChange
        msg == comp.view.message
    IN  /\ (comp.view.kind = "body" /\ sub.defined /\ change.defined
              /\ change.scheduledAction = "PRICE_CHANGE" /\ change.price.defined) =>
                /\ Contains(msg, ToString(change.price.monthlyMessageLimit))
                /\ Contains(msg, FormatDate(change.scheduledChangeAt))
                /\ ~Contains(msg, "Your subscription will end on ")
        /\ (comp.view.kind = "body" /\ sub.defined /\ change.defined
              /\ change.scheduledAction = "CANCELLATION") =>
                msg = <<"Your subscription will end on ",
                        FormatDate(change.scheduledChangeAt)>>
        /\ (~sub.defined \/ ~change.defined \/ change.scheduledAction = "") =>
                msg = <<>>

\* A rendered display of a scheduled cancellation that carries a price, and
\* whose message names December 31, 2026.
C10_Witness ==
    /\ comp.view.kind = "body"
    /\ comp.subscription.scheduledChange.scheduledAction = "CANCELLATION"
    /\ comp.subscription.scheduledChange.price.defined
    /\ Contains(comp.view.message, "December 31, 2026")

(***************************************************************************)
(* Claims: subscriptions table                                             *)
(***************************************************************************)
\* C11: every row the subscriptions table holds has a well-formed scheduled
\* change: scheduledAction non-null implies scheduledChangeAt non-null, and
\* scheduledAction = PRICE_CHANGE implies scheduledPriceId non-null.
C11_ScheduledChangeWellFormed ==
    \A row \in subscriptions :
       /\ (row.scheduledAction /= Null => row.scheduledChangeAt /= Null)
       /\ (row.scheduledAction = "PRICE_CHANGE" => row.scheduledPriceId /= Null)

(***************************************************************************)
(* Claims: schedule workflow, absence checks                               *)
(***************************************************************************)
\* C12: the absence checks run in the order phase 0, item 0, price, each with
\* its own error; when one of them fails the function has made exactly one
\* call, the schedule-create call, no update or release call follows, and the
\* created schedule is still on the provider side.
C12_AbsenceChecksOrphan ==
    (wf.pc \in {"updating", "done"} /\ wf.schedule /= NoSchedule) =>
      LET phases == wf.schedule.phases
          noPhase == Len(phases) = 0
          noItem == ~noPhase /\ Len(phases[1].items) = 0
          noPrice == ~noPhase /\ ~noItem /\ phases[1].items[1].price.id = ""
      IN  /\ (noPhase => wf.error = "No current phase found")
          /\ (noItem => wf.error = "No current item found")
          /\ (noPrice => wf.error = "No current price found")
          /\ (noPhase \/ noItem \/ noPrice) =>
                /\ wf.pc = "done"
                /\ wf.result = NoSchedule
                /\ Len(calls) = 1
                /\ calls[1].op = "create"
                /\ calls[1].from_subscription = wf.subscriptionId
                /\ \A i \in 1..Len(calls) : calls[i].op \notin {"update", "release"}
                /\ wf.schedule \in schedules

\* A run that failed the price check on a schedule with two items, whose
\* schedule is left on the provider side.
C12_Witness ==
    /\ wf.pc = "done" /\ wf.error = "No current price found"
    /\ Len(wf.schedule.phases[1].items) = 2
    /\ wf.schedule \in schedules
    /\ Len(calls) = 1

=============================================================================
